---- MODULE Spec2Model ----
(***************************************************************************)
(* Graph container (directed / undirected), Dijkstra and A* of the         *)
(* path-planning repository, as a state machine.                           *)
(*                                                                         *)
(* Objects are handles: a node object is an index into nodeObjs, an edge   *)
(* object an index into edgeObjs.  Node equality is equality of ids        *)
(* (BaseNode.__eq__), edge equality is object identity (BaseEdge defines   *)
(* no __eq__).  Python dicts are insertion ordered, so the two mappings of *)
(* a graph are sequences of handles whose keys are the objects' ids.       *)
(* Weights and coordinates are naturals.                                   *)
(***************************************************************************)
EXTENDS Integers, Sequences, FiniteSets, TLC

\* ---------------------------------------------------------------- bounds
MaxEdges == 3          \* edges of a graph handed to a search
MaxWeight == 1         \* edge weights are 0..MaxWeight
MaxObjs == 4           \* node and edge objects constructed while building a graph

NodeIds == 1..3        \* node ids of a graph handed to a search
Weights == 0..MaxWeight

\* Python's None, for ids, handles and coordinates (all of them naturals).
None == 0 - 1
\* float('inf')
Inf == 0 - 2

VARIABLES
    variant,          \* "directed" | "undirected": the classes in use
    nodeObjs,         \* the node objects constructed so far
    edgeObjs,         \* the edge objects constructed so far
    nodes,            \* BaseGraph.nodes : id -> node, in insertion order
    edges,            \* BaseGraph.edges : id -> edge, in insertion order
    raised,           \* exception raised by the last graph call, or "none"
    dj_pc,            \* Dijkstra.find_shortest_paths: position of the call
    source_node_id,
    distances,
    predecessors,
    priority_queue,
    unvisited_nodes,
    shortest_paths,
    heuristic_type,   \* AStar.heuristic_type
    self_start,       \* AStar.start
    self_goal,        \* AStar.goal
    self_predecessors,\* AStar.predecessors
    as_pc,            \* AStar.find_shortest_path: position of the call
    goal_id,
    open_list,
    closed_list,
    g_costs,
    result,           \* what find_shortest_path returned
    calls             \* the locals of each of two calls made on one AStar
                      \* instance from two threads

graphVars == <<variant, nodeObjs, edgeObjs, nodes, edges, raised>>
djVars == <<dj_pc, source_node_id, distances, predecessors, priority_queue,
            unvisited_nodes, shortest_paths>>
asVars == <<heuristic_type, self_start, self_goal, self_predecessors, as_pc,
            goal_id, open_list, closed_list, g_costs, result, calls>>
vars == <<graphVars, djVars, asVars>>

\* ------------------------------------------------------------- utilities
Range(s) == {s[i] : i \in DOMAIN s}

RECURSIVE SumSeq(_)
SumSeq(s) == IF s = <<>> THEN 0 ELSE Head(s) + SumSeq(Tail(s))

\* --------------------------------------------------------- graph entities
\* BaseNode.__eq__: two node objects are equal when their ids are.
NodeEq(a, b) == nodeObjs[a].id = nodeObjs[b].id

\* DirectedNode.__init__ / UndirectedNode.__init__
NewNodeObj(id, x, y) ==
    IF variant = "directed"
    THEN [id |-> id, x |-> x, y |-> y,
          outgoing_edges |-> <<>>, incoming_edges |-> <<>>]
    ELSE [id |-> id, x |-> x, y |-> y, edges |-> <<>>]

\* AppendIfAbsent without the membership test: `list.append(edge)` alone.
AppendAlways(list, e) == Append(list, e)

\* `if edge not in list: list.append(edge)` (identity of the edge object)
AppendIfAbsent(list, e) == IF e \in Range(list) THEN list ELSE Append(list, e)

\* DirectedEdge.__init__: the node objects after source.add_outgoing_edge
\* and target.add_incoming_edge of the new edge object e.
DirectedEdgeRegister(objs, e, s, t) ==
    LET afterOut == [objs EXCEPT ![s].outgoing_edges =
                        AppendIfAbsent(objs[s].outgoing_edges, e)]
    IN  [afterOut EXCEPT ![t].incoming_edges =
                        AppendIfAbsent(afterOut[t].incoming_edges, e)]

\* UndirectedEdge.__init__: node1.add_edge(self); node2.add_edge(self)
UndirectedEdgeRegister(objs, e, a, b) ==
    LET afterA == [objs EXCEPT ![a].edges = AppendIfAbsent(objs[a].edges, e)]
    IN  [afterA EXCEPT ![b].edges = AppendIfAbsent(afterA[b].edges, e)]

NewEdgeObj(id, a, b, w) ==
    IF variant = "directed"
    THEN [id |-> id, weight |-> w, source |-> a, target |-> b]
    ELSE [id |-> id, weight |-> w, node1 |-> a, node2 |-> b]

EdgeRegister(objs, e, a, b) ==
    IF variant = "directed" THEN DirectedEdgeRegister(objs, e, a, b)
    ELSE UndirectedEdgeRegister(objs, e, a, b)

\* -------------------------------------------------------- graph container
NodeKeys == {nodeObjs[nodes[i]].id : i \in DOMAIN nodes}
EdgeKeys == {edgeObjs[edges[i]].id : i \in DOMAIN edges}

\* BaseGraph.get_node: self.nodes.get(node_id)
GetNode(node_id) ==
    IF node_id \in NodeKeys
    THEN CHOOSE h \in Range(nodes) : nodeObjs[h].id = node_id
    ELSE None

\* BaseGraph.get_edge: self.edges.get(edge_id)
GetEdge(edge_id) ==
    IF edge_id \in EdgeKeys
    THEN CHOOSE h \in Range(edges) : edgeObjs[h].id = edge_id
    ELSE None

\* DirectedNode.get_successors
GetSuccessors(n) ==
    [i \in DOMAIN nodeObjs[n].outgoing_edges |->
        edgeObjs[nodeObjs[n].outgoing_edges[i]].target]

\* UndirectedGraph.get_neighbors, the list comprehension over node.edges
UndirectedNeighborList(n) ==
    [i \in DOMAIN nodeObjs[n].edges |->
        LET edge == edgeObjs[nodeObjs[n].edges[i]]
        IN  IF NodeEq(edge.node2, n) THEN edge.node1 ELSE edge.node2]

\* get_neighbors(node_id): the list of node objects, or the error raised.
GetNeighbors(node_id) ==
    LET node == GetNode(node_id)
    IN  IF node = None THEN [raised |-> "ValueError", list |-> <<>>]
        ELSE [raised |-> "none",
              list |-> IF variant = "directed" THEN GetSuccessors(node)
                       ELSE UndirectedNeighborList(node)]

\* An argument of get_edge_between: a node id or a node instance.
AsId(id) == [kind |-> "id", v |-> id]
AsNode(h) == [kind |-> "node", v |-> h]

\* `node1 if isinstance(node1, BaseNode) else self.get_node(node1)`
ResolveNode(arg) == IF arg.kind = "node" THEN arg.v ELSE GetNode(arg.v)

\* DirectedMatch with the direction of the edge ignored.
DirectedMatchEitherWay(edge, source_node, target_node) ==
    \/ NodeEq(edge.source, source_node) /\ NodeEq(edge.target, target_node)
    \/ NodeEq(edge.source, target_node) /\ NodeEq(edge.target, source_node)

\* DirectedGraph.get_edge_between: `edge.source == source_node and
\* edge.target == target_node`
DirectedMatch(edge, source_node, target_node) ==
    NodeEq(edge.source, source_node) /\ NodeEq(edge.target, target_node)

\* HasNodes with only the first of its two orders tested.
HasNodesOneWay(edge, node1, node2) ==
    NodeEq(edge.node1, node1) /\ NodeEq(edge.node2, node2)

\* UndirectedEdge.has_nodes
HasNodes(edge, node1, node2) ==
    \/ NodeEq(edge.node1, node1) /\ NodeEq(edge.node2, node2)
    \/ NodeEq(edge.node1, node2) /\ NodeEq(edge.node2, node1)

EdgeMatch(edge, n1, n2) ==
    IF variant = "directed" THEN DirectedMatch(edge, n1, n2)
    ELSE HasNodes(edge, n1, n2)

\* get_edge_between(node1, node2): the first edge of self.edges.values()
\* that matches, or None.
GetEdgeBetween(arg1, arg2) ==
    LET n1 == ResolveNode(arg1)
        n2 == ResolveNode(arg2)
    IN  IF n1 = None \/ n2 = None THEN None
        ELSE LET hits == {i \in DOMAIN edges : EdgeMatch(edgeObjs[edges[i]], n1, n2)}
             IN  IF hits = {} THEN None
                 ELSE edges[CHOOSE i \in hits : \A j \in hits : i <= j]

\* ------------------------------------------------------- graph operations
\* DirectedNode(id, x, y) / UndirectedNode(id, x, y)
NewNode(id, x, y) ==
    /\ nodeObjs' = Append(nodeObjs, NewNodeObj(id, x, y))
    /\ raised' = "none"
    /\ UNCHANGED <<variant, edgeObjs, nodes, edges>>
    /\ UNCHANGED <<djVars, asVars>>

\* DirectedEdge(id, source, target, weight) / UndirectedEdge(id, n1, n2, w)
NewEdge(id, a, b, w) ==
    /\ edgeObjs' = Append(edgeObjs, NewEdgeObj(id, a, b, w))
    /\ nodeObjs' = EdgeRegister(nodeObjs, Len(edgeObjs) + 1, a, b)
    /\ raised' = "none"
    /\ UNCHANGED <<variant, nodes, edges>>
    /\ UNCHANGED <<djVars, asVars>>

\* AddNode without the test of the id: `self.nodes[node.id] = node` alone,
\* which replaces the node stored under the id.
AddNodeOverwrite(n) ==
    /\ raised' = "none"
    /\ nodes' = IF nodeObjs[n].id \in NodeKeys
                THEN [i \in DOMAIN nodes |->
                        IF nodeObjs[nodes[i]].id = nodeObjs[n].id THEN n ELSE nodes[i]]
                ELSE Append(nodes, n)
    /\ UNCHANGED <<variant, nodeObjs, edgeObjs, edges>>
    /\ UNCHANGED <<djVars, asVars>>

\* The registration of an edge made again: source.add_outgoing_edge(e) and
\* target.add_incoming_edge(e), or node1.add_edge(e) and node2.add_edge(e).
RepeatRegistration(e) ==
    /\ nodeObjs' = IF variant = "directed"
                   THEN EdgeRegister(nodeObjs, e, edgeObjs[e].source, edgeObjs[e].target)
                   ELSE EdgeRegister(nodeObjs, e, edgeObjs[e].node1, edgeObjs[e].node2)
    /\ raised' = "none"
    /\ UNCHANGED <<variant, edgeObjs, nodes, edges>>
    /\ UNCHANGED <<djVars, asVars>>

\* BaseGraph.add_node
AddNode(n) ==
    /\ IF nodeObjs[n].id \in NodeKeys
       THEN raised' = "ValueError" /\ nodes' = nodes
       ELSE raised' = "none" /\ nodes' = Append(nodes, n)
    /\ UNCHANGED <<variant, nodeObjs, edgeObjs, edges>>
    /\ UNCHANGED <<djVars, asVars>>

\* BaseGraph.add_edge
AddEdge(e) ==
    /\ IF edgeObjs[e].id \in EdgeKeys
       THEN raised' = "ValueError" /\ edges' = edges
       ELSE raised' = "none" /\ edges' = Append(edges, e)
    /\ UNCHANGED <<variant, nodeObjs, edgeObjs, nodes>>
    /\ UNCHANGED <<djVars, asVars>>

\* RemoveNode that deletes the entry: `del self.nodes[node_id]` in place of
\* `pass`.
RemoveNodeDeletes(node_id) ==
    /\ raised' = "none"
    /\ nodes' = SelectSeq(nodes, LAMBDA h : nodeObjs[h].id # node_id)
    /\ UNCHANGED <<variant, nodeObjs, edgeObjs, edges>>
    /\ UNCHANGED <<djVars, asVars>>

\* BaseGraph.remove_node: `if node_id in self.nodes: pass`
RemoveNode(node_id) ==
    /\ raised' = "none"
    /\ UNCHANGED <<variant, nodeObjs, edgeObjs, nodes, edges>>
    /\ UNCHANGED <<djVars, asVars>>

\* BaseGraph.remove_edge: `if edge_id in self.edges: pass`
RemoveEdge(edge_id) ==
    /\ raised' = "none"
    /\ UNCHANGED <<variant, nodeObjs, edgeObjs, nodes, edges>>
    /\ UNCHANGED <<djVars, asVars>>

\* ---------------------------------------------------------------- Dijkstra
\* Costs are naturals or Inf (float('inf')).
Less(a, b) == IF a = Inf THEN FALSE ELSE IF b = Inf THEN TRUE ELSE a < b

Plus(a, w) == IF a = Inf THEN Inf ELSE a + w

\* Python's tuple order on (priority, node_id): by priority, then by id.
TupleLess(s, t) == s[1] < t[1] \/ (s[1] = t[1] /\ s[2] < t[2])

\* heapq.heappush.  heappop returns the least tuple, and equal tuples cannot
\* be told apart, so the heap is kept as the sorted list of its tuples.
HeapPush(heap, item) ==
    LET k == Cardinality({i \in DOMAIN heap : ~TupleLess(item, heap[i])})
    IN  SubSeq(heap, 1, k) \o <<item>> \o SubSeq(heap, k + 1, Len(heap))

\* heapq.heappop: the heap without its least tuple, which is returned.
HeapPop(heap) == Tail(heap)

\* The comparison of DjImproves with `<=` in place of `<`.
DjImprovesOrEqual(potential_distance, known) ==
    known = Inf \/ (potential_distance # Inf /\ potential_distance <= known)

\* `potential_distance < distances[neighbor_node.id]`
DjImproves(potential_distance, known) == Less(potential_distance, known)

DjState ==
    [pc |-> dj_pc, source_node_id |-> source_node_id, distances |-> distances,
     predecessors |-> predecessors, priority_queue |-> priority_queue,
     unvisited_nodes |-> unvisited_nodes, shortest_paths |-> shortest_paths]

\* find_shortest_paths, lines 26-30: the state on entering the loop.
DjEnter(source) ==
    [pc |-> "loop", source_node_id |-> source,
     distances |-> [n \in NodeKeys \cup {source} |-> IF n = source THEN 0 ELSE Inf],
     predecessors |-> [n \in NodeKeys |-> None],
     priority_queue |-> <<<<0, source>>>>,
     unvisited_nodes |-> NodeKeys,
     shortest_paths |-> <<>>]

\* The `for neighbor_node in ...` loop of one visit, from the i-th neighbour
\* on.  A missing edge makes `edge.weight` raise AttributeError, a neighbour
\* whose id is no key of distances makes the comparison raise KeyError.
RECURSIVE DjRelax(_, _, _, _)
DjRelax(st, current_node_id, neighbors, i) ==
    IF i > Len(neighbors) THEN st
    ELSE
      LET neighbor_node == neighbors[i]
          nid == nodeObjs[neighbor_node].id
          edge == GetEdgeBetween(AsId(current_node_id), AsNode(neighbor_node))
      IN  IF edge = None THEN [st EXCEPT !.pc = "AttributeError"]
          ELSE IF nid \notin DOMAIN st.distances THEN [st EXCEPT !.pc = "KeyError"]
          ELSE
            LET potential_distance ==
                    Plus(st.distances[current_node_id], edgeObjs[edge].weight)
            IN  IF DjImproves(potential_distance, st.distances[nid])
                THEN DjRelax(
                       [st EXCEPT !.distances[nid] = potential_distance,
                                  !.predecessors[nid] = current_node_id,
                                  !.priority_queue =
                                      HeapPush(@, <<potential_distance, nid>>)],
                       current_node_id, neighbors, i + 1)
                ELSE DjRelax(st, current_node_id, neighbors, i + 1)

\* DjStale answering that no popped entry is stale.
DjNeverStale(current_node_id, unvisited) == FALSE

\* `if current_node_id not in unvisited_nodes: continue`
DjStale(current_node_id, unvisited) == current_node_id \notin unvisited

\* One pass of `while unvisited_nodes:` (the loop condition holds).
\* set.remove raises KeyError for an element the set does not hold.
DjIterate(st) ==
    IF st.priority_queue = <<>> THEN [st EXCEPT !.pc = "IndexError"]
    ELSE
      LET current_node_id == Head(st.priority_queue)[2]
          popped == [st EXCEPT !.priority_queue = HeapPop(@)]
      IN  IF DjStale(current_node_id, st.unvisited_nodes) THEN popped
          ELSE IF current_node_id \notin st.unvisited_nodes
          THEN [popped EXCEPT !.pc = "KeyError"]
          ELSE DjRelax([popped EXCEPT !.unvisited_nodes = @ \ {current_node_id}],
                       current_node_id, GetNeighbors(current_node_id).list, 1)

\* Lines 52-56: the returned map node_id -> (distance, predecessor).
DjReturn(st) ==
    [st EXCEPT !.pc = "returned",
               !.shortest_paths = [n \in DOMAIN st.distances |->
                                     <<st.distances[n], st.predecessors[n]>>]]

DjStep(st) == IF st.unvisited_nodes = {} THEN DjReturn(st) ELSE DjIterate(st)

\* The whole call, run to its end (a return or a raised exception).
RECURSIVE DjRun(_)
DjRun(st) == IF st.pc = "loop" THEN DjRun(DjStep(st)) ELSE st

DjAssign(st) ==
    /\ dj_pc' = st.pc
    /\ source_node_id' = st.source_node_id
    /\ distances' = st.distances
    /\ predecessors' = st.predecessors
    /\ priority_queue' = st.priority_queue
    /\ unvisited_nodes' = st.unvisited_nodes
    /\ shortest_paths' = st.shortest_paths

\* A call of find_shortest_paths(source) on a graph that holds the source.
DijkstraCall(source) ==
    /\ dj_pc # "loop"
    /\ source \in NodeKeys
    /\ DjAssign(DjEnter(source))
    /\ UNCHANGED <<graphVars, asVars>>

DijkstraIterate ==
    /\ dj_pc = "loop"
    /\ unvisited_nodes # {}
    /\ DjAssign(DjIterate(DjState))
    /\ UNCHANGED <<graphVars, asVars>>

DijkstraReturn ==
    /\ dj_pc = "loop"
    /\ unvisited_nodes = {}
    /\ DjAssign(DjReturn(DjState))
    /\ UNCHANGED <<graphVars, asVars>>

\* ---------------------------------------------------------------------- A*
\* A heuristic value or an f_cost is a + sqrt(r) with a and r naturals: only
\* EUCLIDEAN has r # 0.  FLess is `<` on these reals.
FLess(f, g) ==
    LET D == g.a - f.a
    IN  IF D >= 0
        THEN LET L == f.r - g.r - D * D
             IN  L < 0 \/ L * L < 4 * D * D * g.r
        ELSE LET M == g.r - f.r - D * D
             IN  M > 0 /\ 4 * D * D * f.r < M * M

\* Python's tuple order on (f_cost, node_id)
FTupleLess(s, t) == FLess(s[1], t[1]) \/ (~FLess(t[1], s[1]) /\ s[2] < t[2])

\* heapq.heappush on the open list, kept sorted as in HeapPush.
OpenPush(heap, item) ==
    LET k == Cardinality({i \in DOMAIN heap : ~FTupleLess(item, heap[i])})
    IN  SubSeq(heap, 1, k) \o <<item>> \o SubSeq(heap, k + 1, Len(heap))

Abs(v) == IF v < 0 THEN 0 - v ELSE v

Max(v, w) == IF v < w THEN w ELSE v

\* AStar.heuristic: dx and dy are computed before the mode is looked at, so
\* a node without coordinates (x = None, the constructor's default) raises
\* TypeError in every mode.
Heuristic(start_node, goal_node) ==
    LET s == nodeObjs[start_node]
        g == nodeObjs[goal_node]
    IN  IF None \in {s.x, g.x, s.y, g.y} THEN [raised |-> "TypeError", a |-> 0, r |-> 0]
        ELSE
          LET dx == Abs(s.x - g.x)
              dy == Abs(s.y - g.y)
          IN  CASE heuristic_type = "MANHATTAN" -> [raised |-> "none", a |-> dx + dy, r |-> 0]
                [] heuristic_type = "EUCLIDEAN" ->
                       [raised |-> "none", a |-> 0, r |-> dx * dx + dy * dy]
                [] heuristic_type = "CHEBYSHEV" -> [raised |-> "none", a |-> Max(dx, dy), r |-> 0]
                [] heuristic_type = "ZERO" -> [raised |-> "none", a |-> 0, r |-> 0]

\* `tentative_g_cost < g_costs[neighbor_node.id]`
AsImproves(tentative_g_cost, known) == Less(tentative_g_cost, known)

\* `if neighbor_node.id in closed_list: continue`
SkipClosed(nid, closed) == nid \in closed

NoPath == [is_none |-> TRUE, path |-> <<>>]

Reverse(s) == [i \in 1..Len(s) |-> s[Len(s) + 1 - i]]

\* reconstruct_path, the `while current in predecessors` walk: the ids
\* appended, goal first.  A walk longer than the map has keys never ends.
RECURSIVE WalkBack(_, _, _)
WalkBack(current, preds, fuel) ==
    IF current \notin DOMAIN preds THEN [diverges |-> FALSE, path |-> <<>>]
    ELSE IF fuel = 0 THEN [diverges |-> TRUE, path |-> <<>>]
    ELSE LET rest == WalkBack(preds[current], preds, fuel - 1)
         IN  [diverges |-> rest.diverges, path |-> <<current>> \o rest.path]

\* AStar.reconstruct_path(predecessors), reading self.goal and self.start
ReconstructPath(preds, start, goal) ==
    IF DOMAIN preds = {} THEN [diverges |-> FALSE, value |-> NoPath]
    ELSE LET walk == WalkBack(nodeObjs[goal].id, preds, Cardinality(DOMAIN preds))
         IN  [diverges |-> walk.diverges,
              value |-> [is_none |-> FALSE,
                         path |-> Reverse(walk.path \o <<nodeObjs[start].id>>)]]

AsState ==
    [pc |-> as_pc, self_start |-> self_start, self_goal |-> self_goal,
     self_predecessors |-> self_predecessors, goal_id |-> goal_id,
     open_list |-> open_list, closed_list |-> closed_list, g_costs |-> g_costs,
     result |-> result]

\* AsEnter without `self.predecessors = {}`: the map of the instance is kept.
AsEnterKeepPredecessors(start_id, goal) ==
    [pc |-> "loop", self_start |-> GetNode(start_id), self_goal |-> GetNode(goal),
     self_predecessors |-> self_predecessors, goal_id |-> goal,
     open_list |-> <<<<[a |-> 0, r |-> 0], start_id>>>>,
     closed_list |-> {},
     g_costs |-> [n \in NodeKeys |-> IF n = start_id THEN 0 ELSE Inf],
     result |-> NoPath]

\* find_shortest_path, lines 91-102: the state on entering the loop.
AsEnter(start_id, goal) ==
    [pc |-> "loop", self_start |-> GetNode(start_id), self_goal |-> GetNode(goal),
     self_predecessors |-> <<>>, goal_id |-> goal,
     open_list |-> <<<<[a |-> 0, r |-> 0], start_id>>>>,
     closed_list |-> {},
     g_costs |-> [n \in NodeKeys |-> IF n = start_id THEN 0 ELSE Inf],
     result |-> NoPath]

\* The `for neighbor_node in ...` loop of one expansion, from the i-th
\* neighbour on.  g_costs and self.predecessors are written before the
\* heuristic is called, so they keep the write when it raises.  (st is the
\* value of entered: the one element of the set, evaluated once.)
RECURSIVE AsRelax(_, _, _, _)
AsRelax(entered, current_node_id, neighbors, i) ==
  CHOOSE left \in {
    IF i > Len(neighbors) THEN st
    ELSE
      LET neighbor_node == neighbors[i]
          nid == nodeObjs[neighbor_node].id
          edge == GetEdgeBetween(AsId(current_node_id), AsId(nid))
      IN  IF SkipClosed(nid, st.closed_list)
          THEN AsRelax(st, current_node_id, neighbors, i + 1)
          ELSE IF edge = None THEN [st EXCEPT !.pc = "AttributeError"]
          ELSE IF nid \notin DOMAIN st.g_costs THEN [st EXCEPT !.pc = "KeyError"]
          ELSE
            LET tentative_g_cost ==
                    Plus(st.g_costs[current_node_id], edgeObjs[edge].weight)
                h == Heuristic(neighbor_node, st.self_goal)
                written == [st EXCEPT
                    !.g_costs[nid] = tentative_g_cost,
                    !.self_predecessors =
                        [k \in DOMAIN @ \cup {nid} |->
                            IF k = nid THEN current_node_id ELSE @[k]]]
            IN  IF ~AsImproves(tentative_g_cost, st.g_costs[nid])
                THEN AsRelax(st, current_node_id, neighbors, i + 1)
                ELSE IF h.raised # "none" THEN [written EXCEPT !.pc = h.raised]
                ELSE AsRelax(
                       [written EXCEPT !.open_list = OpenPush(@,
                           <<[a |-> tentative_g_cost + h.a, r |-> h.r], nid>>)],
                       current_node_id, neighbors, i + 1)
    : st \in {entered}} : TRUE

\* One pass of `while open_list:` (the list is not empty).
AsIterate(st) ==
    LET current_node_id == Head(st.open_list)[2]
        popped == [st EXCEPT !.open_list = HeapPop(@)]
    IN  IF current_node_id = st.goal_id
        THEN LET r == ReconstructPath(st.self_predecessors, st.self_start, st.self_goal)
             IN  [popped EXCEPT !.pc = IF r.diverges THEN "diverges" ELSE "returned",
                                !.result = r.value]
        ELSE AsRelax([popped EXCEPT !.closed_list = @ \cup {current_node_id}],
                     current_node_id, GetNeighbors(current_node_id).list, 1)

\* AsNoPath without the return: the call stays where it is.
AsNoPathStay(st) == st

\* Line 123: the loop ended without the goal being popped.
AsNoPath(st) == [st EXCEPT !.pc = "returned", !.result = NoPath]

AsStep(st) == IF st.open_list = <<>> THEN AsNoPath(st) ELSE AsIterate(st)

\* The whole call, run to its end (a return or a raised exception).
RECURSIVE AsRun(_)
AsRun(st) == IF st.pc = "loop" THEN AsRun(AsStep(st)) ELSE st

AsAssign(st) ==
    /\ as_pc' = st.pc
    /\ self_start' = st.self_start
    /\ self_goal' = st.self_goal
    /\ self_predecessors' = st.self_predecessors
    /\ goal_id' = st.goal_id
    /\ open_list' = st.open_list
    /\ closed_list' = st.closed_list
    /\ g_costs' = st.g_costs
    /\ result' = st.result

\* A call of find_shortest_path(start_id, goal) with both ids in the graph,
\* on an instance no call of which is running.
AStarCall(start_id, goal) ==
    /\ as_pc # "loop"
    /\ start_id \in NodeKeys
    /\ goal \in NodeKeys
    /\ \E st \in {AsEnter(start_id, goal)} : AsAssign(st)
    /\ UNCHANGED <<graphVars, djVars, heuristic_type, calls>>

AStarIterate ==
    /\ as_pc = "loop"
    /\ open_list # <<>>
    /\ \E st \in {AsIterate(AsState)} : AsAssign(st)
    /\ UNCHANGED <<graphVars, djVars, heuristic_type, calls>>

AStarNoPath ==
    /\ as_pc = "loop"
    /\ open_list = <<>>
    /\ \E st \in {AsNoPath(AsState)} : AsAssign(st)
    /\ UNCHANGED <<graphVars, djVars, heuristic_type, calls>>

\* Two threads, each making one call of find_shortest_path on the same AStar
\* instance.  open_list, closed_list and g_costs are locals of a call;
\* self.start, self.goal and self.predecessors are fields of the instance,
\* read and written by both.  A thread is switched between loop passes (the
\* interpreter may switch it at any bytecode: these are some of the
\* interleavings).  `disturbed` records that the other call has entered or
\* made a pass since this call entered.
CallIds == 1..2

IdleCall ==
    [pc |-> "idle", start_id |-> None, goal_id |-> None, open_list |-> <<>>,
     closed_list |-> {}, g_costs |-> <<>>, result |-> NoPath, disturbed |-> FALSE]

\* The state a call works on: its locals and the fields of the instance.
Frame(c) ==
    [pc |-> calls[c].pc, self_start |-> self_start, self_goal |-> self_goal,
     self_predecessors |-> self_predecessors, goal_id |-> calls[c].goal_id,
     open_list |-> calls[c].open_list, closed_list |-> calls[c].closed_list,
     g_costs |-> calls[c].g_costs, result |-> calls[c].result]

\* Call c has taken the step that ends in st: its locals and the fields of
\* the instance are written, the other call's locals are its own.
FrameAssign(c, st, start_id) ==
    /\ self_start' = st.self_start
    /\ self_goal' = st.self_goal
    /\ self_predecessors' = st.self_predecessors
    /\ calls' = [d \in CallIds |->
                   IF d = c
                   THEN [pc |-> st.pc, start_id |-> start_id, goal_id |-> st.goal_id,
                         open_list |-> st.open_list, closed_list |-> st.closed_list,
                         g_costs |-> st.g_costs, result |-> st.result,
                         disturbed |-> IF calls[c].pc = "idle" THEN FALSE
                                       ELSE calls[c].disturbed]
                   ELSE [calls[d] EXCEPT !.disturbed = @ \/ calls[d].pc = "loop"]]
    /\ UNCHANGED <<graphVars, djVars, heuristic_type>>
    /\ UNCHANGED <<as_pc, goal_id, open_list, closed_list, g_costs, result>>

ConcurrentCall(c, start_id, goal) ==
    /\ calls[c].pc = "idle"
    /\ start_id \in NodeKeys
    /\ goal \in NodeKeys
    /\ FrameAssign(c, AsEnter(start_id, goal), start_id)

ConcurrentIterate(c) ==
    /\ calls[c].pc = "loop"
    /\ calls[c].open_list # <<>>
    /\ FrameAssign(c, AsIterate(Frame(c)), calls[c].start_id)

ConcurrentNoPath(c) ==
    /\ calls[c].pc = "loop"
    /\ calls[c].open_list = <<>>
    /\ FrameAssign(c, AsNoPath(Frame(c)), calls[c].start_id)

\* ------------------------------------------------------- initial conditions
\* Dijkstra(graph): no call yet.
DjIdle ==
    /\ dj_pc = "idle"
    /\ source_node_id = None
    /\ distances = <<>>
    /\ predecessors = <<>>
    /\ priority_queue = <<>>
    /\ unvisited_nodes = {}
    /\ shortest_paths = <<>>

\* AStar.__init__(graph, heuristic_type)
AsIdle(type) ==
    /\ heuristic_type = type
    /\ self_start = None
    /\ self_goal = None
    /\ self_predecessors = <<>>
    /\ as_pc = "idle"
    /\ goal_id = None
    /\ open_list = <<>>
    /\ closed_list = {}
    /\ g_costs = <<>>
    /\ result = NoPath
    /\ calls = [c \in CallIds |-> IdleCall]

HeuristicTypes == {"MANHATTAN", "EUCLIDEAN", "CHEBYSHEV", "ZERO"}

\* A graph built the way the tests build one: one node object per id, every
\* node added, every edge constructed and then added, in that order, under an
\* id of its own.
RECURSIVE RegisterAll(_, _, _)
RegisterAll(objs, es, i) ==
    IF i > Len(es) THEN objs
    ELSE RegisterAll(EdgeRegister(objs, i, es[i].a, es[i].b), es, i + 1)

BuiltGraph(ids, es, xs, ys) ==
    /\ edgeObjs = [i \in 1..Len(es) |-> NewEdgeObj(i, es[i].a, es[i].b, es[i].w)]
    /\ nodeObjs = RegisterAll([n \in ids |-> NewNodeObj(n, xs[n], ys[n])], es, 1)
    /\ nodes = [n \in ids |-> n]
    /\ edges = [i \in 1..Len(es) |-> i]
    /\ raised = "none"

\* The edge lists of the graphs on NodeIds: up to MaxEdges edges, self-loops
\* and parallel edges among them, constructed in nondecreasing order of their
\* endpoint pair, parallel edges in every order of their weights.
EdgeChoices == [a : NodeIds, b : NodeIds, w : Weights]

PairRank(c) == c.a * (Cardinality(NodeIds) + 1) + c.b

EdgeLists ==
    UNION {{s \in [1..k -> EdgeChoices] :
              \A i \in 1..(k - 1) : PairRank(s[i]) <= PairRank(s[i + 1])} :
           k \in 0..MaxEdges}

NoCoords == [n \in NodeIds |-> None]

\* Nodes 1, 2, 3 at (0,0), (1,0), (1,1): the three distance modes differ.
CornerX == [n \in NodeIds |-> IF n = 1 THEN 0 ELSE 1]
CornerY == [n \in NodeIds |-> IF n = 3 THEN 1 ELSE 0]

\* Four nodes joined 1-2, 1-3, 3-2, 2-4, on the points (0,0) and (1,0).
FourIds == 1..4
FourEnds == <<<<1, 2>>, <<1, 3>>, <<3, 2>>, <<2, 4>>>>
FourEdgeLists ==
    {[i \in DOMAIN FourEnds |-> [a |-> FourEnds[i][1], b |-> FourEnds[i][2], w |-> ws[i]]] :
        ws \in [DOMAIN FourEnds -> Weights]}

InitGraph ==
    /\ variant \in {"directed", "undirected"}
    /\ nodeObjs = <<>>
    /\ edgeObjs = <<>>
    /\ nodes = <<>>
    /\ edges = <<>>
    /\ raised = "none"
    /\ DjIdle
    /\ AsIdle("MANHATTAN")

InitDijkstra ==
    /\ variant \in {"directed", "undirected"}
    /\ \E es \in EdgeLists : BuiltGraph(NodeIds, es, NoCoords, NoCoords)
    /\ DjIdle
    /\ AsIdle("MANHATTAN")

\* The four-node graphs, their nodes without coordinates.
InitDijkstraFour ==
    /\ variant \in {"directed", "undirected"}
    /\ \E es \in FourEdgeLists :
          BuiltGraph(FourIds, es, [n \in FourIds |-> None], [n \in FourIds |-> None])
    /\ DjIdle
    /\ AsIdle("MANHATTAN")

InitAStar ==
    /\ variant \in {"directed", "undirected"}
    /\ \E es \in EdgeLists :
          \/ BuiltGraph(NodeIds, es, NoCoords, NoCoords)
          \/ BuiltGraph(NodeIds, es, CornerX, CornerY)
    /\ DjIdle
    /\ \E type \in HeuristicTypes : AsIdle(type)

\* Three nodes at the corners, joined 1-2, 2-3 and 1-3.
TriangleEnds == <<<<1, 2>>, <<2, 3>>, <<1, 3>>>>
TriangleEdgeLists ==
    {[i \in DOMAIN TriangleEnds |->
         [a |-> TriangleEnds[i][1], b |-> TriangleEnds[i][2], w |-> ws[i]]] :
        ws \in [DOMAIN TriangleEnds -> Weights]}

InitAStarTwo ==
    /\ variant \in {"directed", "undirected"}
    /\ \E es \in TriangleEdgeLists : BuiltGraph(NodeIds, es, CornerX, CornerY)
    /\ DjIdle
    /\ \E type \in HeuristicTypes : AsIdle(type)

\* The four-node graphs with every node at (0,0), or node 3 alone at (1,0).
InitAStarLive ==
    /\ variant \in {"directed", "undirected"}
    /\ \E es \in FourEdgeLists, x3 \in {0, 1} :
          BuiltGraph(FourIds, es, [n \in FourIds |-> IF n = 3 THEN x3 ELSE 0],
                     [n \in FourIds |-> 0])
    /\ DjIdle
    /\ \E type \in HeuristicTypes : AsIdle(type)

InitAStarFour ==
    /\ variant \in {"directed", "undirected"}
    /\ \E es \in FourEdgeLists, xs \in [FourIds -> {0, 1}] :
          BuiltGraph(FourIds, es, xs, [n \in FourIds |-> 0])
    /\ DjIdle
    /\ \E type \in HeuristicTypes : AsIdle(type)

\* ------------------------------------------------------------ specifications
GraphNodeIds == 1..2
GraphEdgeIds == 1..2
\* BaseEdge.__init__: weight: float = 1.0
DefaultWeight == 1

NextGraph ==
    \/ \E id \in GraphNodeIds :
          Len(nodeObjs) + Len(edgeObjs) < MaxObjs /\ NewNode(id, None, None)
    \/ \E id \in GraphEdgeIds, a, b \in DOMAIN nodeObjs :
          Len(nodeObjs) + Len(edgeObjs) < MaxObjs /\ NewEdge(id, a, b, DefaultWeight)
    \/ \E e \in DOMAIN edgeObjs : RepeatRegistration(e)
    \/ \E n \in DOMAIN nodeObjs : AddNode(n)
    \/ \E e \in DOMAIN edgeObjs : AddEdge(e)
    \/ \E id \in GraphNodeIds : RemoveNode(id)
    \/ \E id \in GraphEdgeIds : RemoveEdge(id)

NextDijkstra ==
    \/ \E source \in NodeKeys : DijkstraCall(source)
    \/ DijkstraIterate
    \/ DijkstraReturn

NextAStar ==
    \/ \E start_id, goal \in NodeKeys : AStarCall(start_id, goal)
    \/ AStarIterate
    \/ AStarNoPath

NextAStarTwo ==
    \/ \E c \in CallIds, start_id, goal \in NodeKeys : ConcurrentCall(c, start_id, goal)
    \/ \E c \in CallIds : ConcurrentIterate(c)
    \/ \E c \in CallIds : ConcurrentNoPath(c)

SpecGraph == InitGraph /\ [][NextGraph]_vars
SpecDijkstra == InitDijkstra /\ [][NextDijkstra]_vars
SpecDijkstraFour == InitDijkstraFour /\ [][NextDijkstra]_vars
SpecAStar == InitAStar /\ [][NextAStar]_vars
SpecAStarFour == InitAStarFour /\ [][NextAStar]_vars
SpecAStarTwo == InitAStarTwo /\ [][NextAStarTwo]_vars
\* A call runs to its end in one piece (no operation blocks or yields), so a
\* step of the loop that can be taken is taken: weak fairness of the two
\* loop steps.  A pass of the loop can be taken exactly when the call is in
\* the loop with a frontier that is not empty, and it always changes the
\* frontier, so weak fairness of AStarIterate is written with that condition
\* in the place of ENABLED <<AStarIterate>>_vars.
SpecAStarLive ==
    /\ InitAStarLive
    /\ [][NextAStar]_vars
    /\ \/ []<>(~(as_pc = "loop" /\ open_list # <<>>))
       \/ []<><<AStarIterate>>_vars
    /\ WF_vars(AStarNoPath)

\* ================================================================== claims
\* The graph as the mappings hold it: an arc <<u, v, w>> for every edge of
\* the edge mapping (both ways for an undirected edge), nodes by their ids.
Arcs ==
    UNION {LET e == edgeObjs[edges[i]]
           IN  IF variant = "directed"
               THEN {<<nodeObjs[e.source].id, nodeObjs[e.target].id, e.weight>>}
               ELSE {<<nodeObjs[e.node1].id, nodeObjs[e.node2].id, e.weight>>,
                     <<nodeObjs[e.node2].id, nodeObjs[e.node1].id, e.weight>>} :
           i \in DOMAIN edges}

MinOf(S) == CHOOSE m \in S : \A k \in S : m <= k

\* Bellman-Ford rounds over Arcs: the least total weight of a path with at
\* most k more arcs.
RECURSIVE Shortest(_, _)
Shortest(d, k) ==
    IF k = 0 THEN d
    ELSE Shortest(
           [v \in DOMAIN d |->
              LET via == {d[a[1]] + a[3] : a \in {c \in Arcs : c[2] = v /\ d[c[1]] # Inf}}
                  all == via \cup (IF d[v] = Inf THEN {} ELSE {d[v]})
              IN  IF all = {} THEN Inf ELSE MinOf(all)],
           k - 1)

\* The least total weight of a path from s to every node (Inf: no path).
TrueDistance(s) ==
    Shortest([v \in NodeKeys |-> IF v = s THEN 0 ELSE Inf], Cardinality(NodeKeys))

\* p is a sequence of node ids from s to g, consecutive ids joined by an arc.
ValidPath(p, s, g) ==
    /\ Len(p) >= 1
    /\ p[1] = s
    /\ p[Len(p)] = g
    /\ \A i \in 1..(Len(p) - 1) : \E a \in Arcs : a[1] = p[i] /\ a[2] = p[i + 1]

\* The total weight of a valid path, the lightest edge taken at each step.
PathCost(p) ==
    SumSeq([i \in 1..(Len(p) - 1) |->
              MinOf({a[3] : a \in {c \in Arcs : c[1] = p[i] /\ c[2] = p[i + 1]}})])

StartId == nodeObjs[self_start].id

\* C1: when find_shortest_paths(source) has returned, the distance of every
\* node reachable from the source is the least total weight of a path from
\* the source to it (parallel edges allowed).
C1_ShortestDistances ==
    dj_pc = "returned" =>
        \A b \in NodeKeys :
            TrueDistance(source_node_id)[b] # Inf =>
                shortest_paths[b][1] = TrueDistance(source_node_id)[b]

\* C2: every call of find_shortest_paths ends by returning a map, and in it
\* every node not reachable from the source has distance +infinity and
\* predecessor none.
C2_UnreachableReported ==
    dj_pc \notin {"idle", "loop"} =>
        /\ dj_pc = "returned"
        /\ \A n \in NodeKeys :
              TrueDistance(source_node_id)[n] = Inf => shortest_paths[n] = <<Inf, None>>

\* The heuristic never exceeds the least cost that remains to the goal.
Admissible ==
    \A n \in NodeKeys :
        LET h == Heuristic(GetNode(n), self_goal)
            rest == TrueDistance(n)[goal_id]
        IN  rest # Inf => h.raised = "none" /\ ~FLess([a |-> rest, r |-> 0], h)

\* C3: with an admissible heuristic and a goal reachable from the start, the
\* path find_shortest_path returns has the least total weight of all paths
\* from start to goal.  Stated for a goal other than the start.
C3_OptimalPath ==
    (/\ as_pc = "returned"
     /\ StartId # goal_id
     /\ TrueDistance(StartId)[goal_id] # Inf
     /\ Admissible) =>
        /\ ~result.is_none
        /\ ValidPath(result.path, StartId, goal_id)
        /\ PathCost(result.path) = TrueDistance(StartId)[goal_id]

\* C4: when a path from start to goal exists, what find_shortest_path returns
\* is a sequence that starts with the start id, ends with the goal id and
\* has every consecutive pair joined by an edge of the graph (from the first
\* to the second in a directed graph).
C4_ReturnedPathValid ==
    (as_pc = "returned" /\ TrueDistance(StartId)[goal_id] # Inf) =>
        ~result.is_none /\ ValidPath(result.path, StartId, goal_id)

\* C5: in mode ZERO every call of find_shortest_path returns a path whose
\* total weight is the distance Dijkstra.find_shortest_paths(start) reports
\* for the goal on the same graph.
C5_ZeroMatchesDijkstra ==
    (heuristic_type = "ZERO" /\ as_pc \notin {"idle", "loop"}) =>
        LET dj == DjRun(DjEnter(StartId))
        IN  /\ as_pc = "returned"
            /\ dj.pc = "returned"
            /\ ~result.is_none
            /\ ValidPath(result.path, StartId, goal_id)
            /\ PathCost(result.path) = dj.shortest_paths[goal_id][1]

\* C6: a call whose goal is not reachable from its start returns none, and
\* none is returned only with the frontier empty.  Stated for mode ZERO.
C6_NoneWhenUnreachable ==
    heuristic_type = "ZERO" =>
        /\ (as_pc \notin {"idle", "loop"} /\ TrueDistance(StartId)[goal_id] = Inf) =>
               (as_pc = "returned" /\ result.is_none)
        /\ (as_pc = "returned" /\ result.is_none) => open_list = <<>>

\* C7: in every map find_shortest_paths returns, the source has distance 0
\* and predecessor none.
C7_SourceEntry ==
    dj_pc = "returned" => shortest_paths[source_node_id] = <<0, None>>

\* A map was returned for a source that lies on a zero-weight self-loop or a
\* zero-weight cycle through another node.
C7_Witness ==
    /\ dj_pc = "returned"
    /\ \/ <<source_node_id, source_node_id, 0>> \in Arcs
       \/ \E n \in NodeKeys \ {source_node_id} :
             <<source_node_id, n, 0>> \in Arcs /\ <<n, source_node_id, 0>> \in Arcs

NeighborIds(id) == {nodeObjs[h].id : h \in Range(GetNeighbors(id).list)}

\* C8: in a directed graph, get_neighbors(id) returns exactly the targets of
\* the edges of the edge mapping whose source is the node, for every node id
\* of the graph.
C8_DirectedNeighbors ==
    variant = "directed" =>
        \A id \in NodeKeys : NeighborIds(id) = {a[2] : a \in {c \in Arcs : c[1] = id}}

\* C9: in an undirected graph, get_neighbors(id) returns exactly the nodes
\* that share an edge of the edge mapping with the node, whichever end of
\* the edge the node is, for every node id of the graph.
C9_UndirectedNeighbors ==
    variant = "undirected" =>
        \A id \in NodeKeys : NeighborIds(id) = {a[2] : a \in {c \in Arcs : c[1] = id}}

\* The arguments get_edge_between is called with: ids and node instances.
EdgeBetweenArgs ==
    {AsId(id) : id \in GraphNodeIds} \cup {AsNode(h) : h \in DOMAIN nodeObjs}

ArgId(arg) == IF arg.kind = "node" THEN nodeObjs[arg.v].id ELSE arg.v

\* The edges of the edge mapping from the node of argument a to that of b.
EdgesFromTo(a, b) ==
    {e \in Range(edges) : /\ nodeObjs[edgeObjs[e].source].id = ArgId(a)
                          /\ nodeObjs[edgeObjs[e].target].id = ArgId(b)}

\* An id resolves when the node mapping has it; an instance always does.
Resolves(arg) == arg.kind = "node" \/ arg.v \in NodeKeys

C11_OrderIndependent ==
    variant = "undirected" =>
        \A a, b \in EdgeBetweenArgs : GetEdgeBetween(a, b) = GetEdgeBetween(b, a)

\* The edge mapping holds two edges between two different nodes of the
\* graph, constructed in opposite orders of their ends, and the lookup finds
\* the first of them in both orders.
C11_Witness ==
    /\ variant = "undirected"
    /\ \E e, f \in Range(edges), a, b \in NodeKeys :
          /\ e # f /\ a # b
          /\ nodeObjs[edgeObjs[e].node1].id = a /\ nodeObjs[edgeObjs[e].node2].id = b
          /\ nodeObjs[edgeObjs[f].node1].id = b /\ nodeObjs[edgeObjs[f].node2].id = a
          /\ GetEdgeBetween(AsId(a), AsId(b)) = edges[1]
          /\ GetEdgeBetween(AsId(b), AsId(a)) = edges[1]

\* What a rejected add leaves behind: the error, and both mappings as they
\* were, so that get_node and get_edge answer as before.
Rejected ==
    /\ raised' = "ValueError"
    /\ nodes' = nodes
    /\ edges' = edges
    /\ \A id \in GraphNodeIds : GetNode(id)' = GetNode(id)
    /\ \A id \in GraphEdgeIds : GetEdge(id)' = GetEdge(id)

\* C12: add_node with an id the node mapping already has, and add_edge with
\* an id the edge mapping already has, fail with an error and leave both
\* mappings unchanged: the entity stored first is still the one returned and
\* the sizes do not change.
C12_DuplicateRejected ==
    [][/\ \A n \in DOMAIN nodeObjs :
              (nodeObjs[n].id \in NodeKeys /\ AddNode(n)) => Rejected
       /\ \A e \in DOMAIN edgeObjs :
              (edgeObjs[e].id \in EdgeKeys /\ AddEdge(e)) => Rejected]_vars

\* An add_node has just failed (no add_edge can have: the edge mapping is
\* empty) for a second node object that carries an id of the node mapping.
C12_Witness ==
    /\ raised = "ValueError"
    /\ edges = <<>>
    /\ \E h \in DOMAIN nodeObjs \ Range(nodes) : GetNode(nodeObjs[h].id) # None

\* C13: a successful add_node(n) makes get_node(n.id) return n itself;
\* get_node keeps returning the node it returns through every later
\* add_node, add_edge, remove_node and remove_edge call, failing or not; and
\* get_node returns "not found" for an id until an add_node of a node with
\* that id succeeds.
C13_RoundTrip ==
    [][/\ \A n \in DOMAIN nodeObjs :
              (nodeObjs[n].id \notin NodeKeys /\ AddNode(n)) =>
                  GetNode(nodeObjs[n].id)' = n
       /\ \A id \in GraphNodeIds :
              /\ GetNode(id) # None => GetNode(id)' = GetNode(id)
              /\ (GetNode(id) = None /\ GetNode(id)' # None) =>
                     \E n \in DOMAIN nodeObjs : nodeObjs[n].id = id /\ AddNode(n)]_vars

\* Two nodes and an edge have been added, a third node object carries an id
\* of the node mapping, and get_node returns the two nodes added.
C13_Witness ==
    /\ Len(nodes) = 2
    /\ edges # <<>>
    /\ DOMAIN nodeObjs \ Range(nodes) # {}
    /\ \A h \in Range(nodes) : GetNode(nodeObjs[h].id) = h

\* C14: whenever find_shortest_path pops the goal and calls reconstruct_path
\* the predecessor map is not empty, so a popped goal never yields none.
\* The state before the pop: the goal is the least entry of the frontier.
C14_GuardNotReached ==
    (as_pc = "loop" /\ open_list # <<>> /\ Head(open_list)[2] = goal_id) =>
        /\ DOMAIN self_predecessors # {}
        /\ ~AsIterate(AsState).result.is_none

\* C15: no frontier entry is popped and expanded for a node that is already
\* in the closed set.  The state before the pop: the least entry of the
\* frontier is not the goal, so its node is expanded next.
C15_NoReExpansion ==
    (as_pc = "loop" /\ open_list # <<>> /\ Head(open_list)[2] # goal_id) =>
        Head(open_list)[2] \notin closed_list

\* C16: in one find_shortest_paths call a popped entry whose node is no
\* longer unvisited is skipped: it changes no distance and no predecessor
\* and pushes nothing; any other popped entry removes its node from the
\* unvisited set, so a node is visited at most once.
C16_VisitedOnce ==
    [][(dj_pc = "loop" /\ unvisited_nodes # {} /\ priority_queue # <<>>) =>
          IF Head(priority_queue)[2] \in unvisited_nodes
          THEN unvisited_nodes' = unvisited_nodes \ {Head(priority_queue)[2]}
          ELSE /\ dj_pc' = "loop"
               /\ distances' = distances
               /\ predecessors' = predecessors
               /\ priority_queue' = Tail(priority_queue)
               /\ unvisited_nodes' = unvisited_nodes]_vars

\* The least entry of the frontier is a stale one, of a node visited
\* already, while another node is still unvisited: the next pass pops it.
C16_Witness ==
    /\ dj_pc = "loop"
    /\ unvisited_nodes # {}
    /\ priority_queue # <<>>
    /\ Head(priority_queue)[2] \notin unvisited_nodes
    /\ distances[Head(priority_queue)[2]] < Head(priority_queue)[1]

\* find_shortest_path(start_id, goal) as the only call of an instance:
\* AStar.__init__ leaves the predecessor map empty.
Alone(start_id, goal) ==
    AsRun([AsEnter(start_id, goal) EXCEPT !.self_predecessors = <<>>])

\* C17: whatever calls of find_shortest_path have completed on the instance
\* before, a call ends as it ends on a new instance: with the same result
\* (or the same exception), and with a predecessor map that holds the
\* entries this call wrote and no other.
C17_SequentialCallsIndependent ==
    as_pc \notin {"idle", "loop"} =>
        /\ as_pc = Alone(StartId, goal_id).pc
        /\ result = Alone(StartId, goal_id).result
        /\ self_predecessors = Alone(StartId, goal_id).self_predecessors

\* A call has returned a path over two edges; the predecessor map holds the
\* entries of that path.  The state is the same after a first call and after
\* a call that follows others.
C17_Witness ==
    /\ as_pc = "returned"
    /\ ~result.is_none
    /\ Len(result.path) = 3
    /\ ValidPath(result.path, StartId, goal_id)
    /\ \A i \in 2..3 : self_predecessors[result.path[i]] = result.path[i - 1]

\* Call c has ended as the same call ends on an instance of its own.
EndsAsAlone(c) ==
    /\ calls[c].pc = Alone(calls[c].start_id, calls[c].goal_id).pc
    /\ calls[c].result = Alone(calls[c].start_id, calls[c].goal_id).result

\* C18: two calls of find_shortest_path interleaved on one instance are
\* unsafe.  A call during which the other call neither entered nor made a
\* pass ends as it ends alone; C18_Witness is the interleaving in which a call
\* does not.
C18_OnlyInterleavingDisturbs ==
    \A c \in CallIds :
        (calls[c].pc \notin {"idle", "loop"} /\ ~calls[c].disturbed) => EndsAsAlone(c)

\* A call has returned, the other call having entered meanwhile and reset
\* the predecessor map and overwritten start and goal: alone it returns a
\* path, here it returned a sequence that is no path from its own start to
\* its own goal.
C18_Witness ==
    \E c \in CallIds :
        /\ calls[c].pc = "returned"
        /\ calls[c].disturbed
        /\ ~Alone(calls[c].start_id, calls[c].goal_id).result.is_none
        /\ ~calls[c].result.is_none
        /\ ~ValidPath(calls[c].result.path, calls[c].start_id, calls[c].goal_id)

\* C19: every call of find_shortest_path on a graph that holds its start and
\* its goal ends, the frontier having emptied or the goal having been popped,
\* whatever the weights and whether the heuristic is admissible or not.
C19_Terminates == (as_pc = "loop") ~> (as_pc = "returned")

\* A call has returned on an undirected graph with an edge of weight 0 (a
\* cycle of weight 0) and a heuristic that is not admissible, after at least
\* two expansions.
C19_Witness ==
    /\ as_pc = "returned"
    /\ variant = "undirected"
    /\ \E a \in Arcs : a[3] = 0
    /\ ~Admissible
    /\ Cardinality(closed_list) >= 2

\* How many times edge object e occurs in a list of edges.
Count(list, e) == Cardinality({i \in DOMAIN list : list[i] = e})

\* C20: every constructed edge occurs exactly once in the outgoing list of
\* its source and exactly once in the incoming list of its target (directed),
\* exactly once in the edge list of each of its two nodes (undirected), a
\* self-loop included, and a registration made again does not duplicate it.
C20_RegisteredOnce ==
    \A e \in DOMAIN edgeObjs :
        IF variant = "directed"
        THEN /\ Count(nodeObjs[edgeObjs[e].source].outgoing_edges, e) = 1
             /\ Count(nodeObjs[edgeObjs[e].target].incoming_edges, e) = 1
        ELSE /\ Count(nodeObjs[edgeObjs[e].node1].edges, e) = 1
             /\ Count(nodeObjs[edgeObjs[e].node2].edges, e) = 1

\* An undirected self-loop and a second edge at the same node have been
\* constructed: the node's edge list holds each of them once.
C20_Witness ==
    /\ variant = "undirected"
    /\ \E e, f \in DOMAIN edgeObjs :
          /\ e # f
          /\ edgeObjs[e].node1 = edgeObjs[e].node2
          /\ edgeObjs[f].node1 = edgeObjs[e].node1
          /\ nodeObjs[edgeObjs[e].node1].edges = <<e, f>>

\* C21: for every node id n of the node mapping and every node m that
\* get_neighbors(n) returns, get_edge_between(n, m) returns an edge, with m
\* given as the instance (Dijkstra) or as its id (A*), and the id of m is a
\* key of the node mapping, whatever nodes and edges were constructed and
\* whichever of them were added.
C21_AdjacencyConsistent ==
    \A n \in NodeKeys :
        \A m \in Range(GetNeighbors(n).list) :
            /\ GetEdgeBetween(AsId(n), AsNode(m)) # None
            /\ GetEdgeBetween(AsId(n), AsId(nodeObjs[m].id)) # None
            /\ nodeObjs[m].id \in NodeKeys

\* The nodes met by following the predecessor links of a returned map from
\* v, at most k links of them: v, its predecessor, and so on up to a node
\* whose predecessor is none.
RECURSIVE LinkChain(_, _)
LinkChain(v, k) ==
    IF k = 0 \/ shortest_paths[v][2] = None THEN <<v>>
    ELSE <<v>> \o LinkChain(shortest_paths[v][2], k - 1)

\* C22: in every map find_shortest_paths returns, for every node v whose
\* predecessor p is not none, the distance of p is finite, the distance of v
\* is the distance of p plus the weight of get_edge_between(p, v), and the
\* predecessor links from v end at the source without meeting a node twice.
C22_PredecessorTree ==
    dj_pc = "returned" =>
        \A v \in DOMAIN shortest_paths :
            LET p == shortest_paths[v][2]
                edge == GetEdgeBetween(AsId(p), AsId(v))
                chain == LinkChain(v, Cardinality(DOMAIN shortest_paths))
            IN  p # None =>
                  /\ p \in DOMAIN shortest_paths
                  /\ shortest_paths[p][1] # Inf
                  /\ edge # None
                  /\ shortest_paths[v][1] = shortest_paths[p][1] + edgeObjs[edge].weight
                  /\ chain[Len(chain)] = source_node_id
                  /\ \A i, j \in DOMAIN chain : i # j => chain[i] # chain[j]

\* A map was returned in which a node is two links away from the source,
\* on a graph that has a cycle of weight 0 through that node's predecessor
\* and two edges of different weight between the same two nodes.
C22_Witness ==
    /\ dj_pc = "returned"
    /\ \E v \in DOMAIN shortest_paths :
          LET p == shortest_paths[v][2]
          IN  /\ p # None
              /\ p # source_node_id
              /\ shortest_paths[p][2] = source_node_id
              /\ \E n \in NodeKeys \ {p} :
                    <<p, n, 0>> \in Arcs /\ <<n, p, 0>> \in Arcs
    /\ \E a, b \in NodeKeys : <<a, b, 0>> \in Arcs /\ <<a, b, 1>> \in Arcs

====
